---- MODULE Spec2Model ----
(***************************************************************************)
(* version-generator: tag resolution, commit counting and version          *)
(* synthesis over a git repository snapshot.                               *)
(*                                                                         *)
(* The repository is a commit graph (ordered parents), lightweight tags,   *)
(* the branch heads refs/heads/main and refs/heads/master, and HEAD.  One  *)
(* run of main is the sequence GetCurrentBranch, GetShortHash, GetLastTag, *)
(* GetCommitsSinceTag, GenerateVersionInfoFromComponents of                *)
(* GenerateVersionInfo, on the go-git handler or on the system git handler.*)
(***************************************************************************)
EXTENDS Integers, Sequences, FiniteSets, TLC

\* Bounds of the model: the commits of a repository with merges, and the
\* length of a repository that is one line of commits.
MaxCommits == 3
MaxLinear == 10
\* Bounds of the formatter's inputs: the greatest commit distance, and the
\* greatest length of a branch name drawn from BranchAlphabet.
MaxDistance == 5
MaxBranchLen == 3

\* plumbing.ZeroHash: "no commit", also used for a branch that does not exist.
NoCommit == 0

TagNames == {"v1.0.0", "v1.1.0"}
\* Committer timestamps are only compared with each other, and only those of
\* tagged commits: as many values as there are tags give every order.
Times == 1..Cardinality(TagNames)
SentinelTag == "v0.0.0"
TrunkRefs == {"main", "master"}
FeatureBranch == "feature/auth"
\* What HEAD names: a branch, or "HEAD" itself when it is detached.
HeadRefs == TrunkRefs \cup {FeatureBranch, "HEAD"}

VARIABLES
    parents,      \* commit -> sequence of its parent commits, first parent first
    ctime,        \* commit -> committer timestamp
    tags,         \* tag name -> target commit, NoCommit when the tag does not exist
    branches,     \* "main" / "master" -> head commit, NoCommit when absent
    head,         \* the commit HEAD resolves to
    headRef,      \* the branch HEAD names, "HEAD" when detached
    unreadable,   \* commits whose object the store cannot read
    inBuiltGit,   \* the handler: TRUE go-git (flag -i), FALSE the git executable
    options,      \* versionSchemes.VersioningOptions built from the flags
    now,          \* time.Now() of the run: [year, month]
    dockerFormat, \* the dockerFormat argument of GenerateVersionInfo
    cli,          \* the file flags of the command line and their paths
    files,        \* what main has written: [path, type], standard output included
    pc,           \* position of the run inside GenerateVersionInfo
    branchName,   \* result of GetCurrentBranch
    shortHash,    \* result of GetShortHash
    lastTag,      \* result of GetLastTag
    commitsSince, \* result of GetCommitsSinceTag
    version,      \* VersionInfo.Version
    err,          \* TRUE when GenerateVersionInfo returned an error
    rebasePoint,  \* commonAncestor of findTagFromRebasePoint, NoCommit when none
    ioFailed      \* history: some object read failed during this run

repoVars == <<parents, ctime, tags, branches, head, headRef, unreadable, inBuiltGit,
              options, now, dockerFormat, cli, files>>
runVars == <<pc, branchName, shortHash, lastTag, commitsSince, version, err,
             rebasePoint, ioFailed>>
vars == <<repoVars, runVars>>

-----------------------------------------------------------------------------
(* Sequences helpers *)

Range(s) == {s[i] : i \in 1..Len(s)}

\* index of the first occurrence of x in s, 0 when absent
IndexOf(s, x) ==
    IF x \in Range(s) THEN CHOOSE i \in 1..Len(s) : s[i] = x /\ \A j \in 1..(i-1) : s[j] # x
    ELSE 0

SelectSeq2(s, S) == SelectSeq(s, LAMBDA x : x \notin S)

-----------------------------------------------------------------------------
(* The commit graph *)

Commits == DOMAIN parents

\* Parent lists of commit c: none (a root), one, or two distinct parents (a
\* merge), each an older commit, so that the graph is acyclic.
ParentSeqs(c) ==
    ({<<>>} \cup {<<p>> : p \in 1..(c-1)}
            \cup {<<p, q>> : p \in 1..(c-1), q \in 1..(c-1)})
        \ {<<p, p>> : p \in 1..(c-1)}

-----------------------------------------------------------------------------
(* object.NewCommitPreorderIter(commit, nil, nil).ForEach                   *)

\* The walk of commitPreIterator: the start commit, then depth-first through
\* a stack of parent iterators, first parent first, skipping commits already
\* seen.  A parent whose object cannot be read ends the walk with an error.
\* order: the commits handed to the callback, in order; failed: the walk ended
\* with a read error instead of io.EOF.
RECURSIVE PreorderWalk(_, _, _)
PreorderWalk(stack, seen, out) ==
    IF stack = <<>> THEN [order |-> out, failed |-> FALSE]
    ELSE LET n == Len(stack)
             top == stack[n]
         IN  IF top = <<>> THEN PreorderWalk(SubSeq(stack, 1, n-1), seen, out)
             ELSE LET h == Head(top)
                      rest == [stack EXCEPT ![n] = Tail(top)]
                  IN  IF h \in unreadable THEN [order |-> out, failed |-> TRUE]
                      ELSE IF h \in seen THEN PreorderWalk(rest, seen, out)
                      ELSE PreorderWalk(
                               Append(rest, SelectSeq2(parents[h], seen \cup {h})),
                               seen \cup {h}, Append(out, h))

\* precondition: the start commit was read (CommitObject succeeded)
Preorder(start) ==
    PreorderWalk(<<SelectSeq2(parents[start], {start})>>, {start}, <<start>>)

-----------------------------------------------------------------------------
(* GoGitHandler: reachability, tag selection, rebase point                  *)

\* isCommitReachable(from, to).  ok: the bool returned; err: an error is
\* returned; io: an object read failed inside the call.  A walk that ends with
\* a read error is reported as (false, nil): only "found" is looked at.
isCommitReachable(from, to) ==
    IF from = to THEN [ok |-> TRUE, err |-> FALSE, io |-> FALSE]
    ELSE IF from \in unreadable THEN [ok |-> FALSE, err |-> TRUE, io |-> TRUE]
    ELSE LET w == Preorder(from)
             found == to \in Range(w.order)
         IN  [ok |-> found, err |-> FALSE, io |-> (~found /\ w.failed)]

ExistingTags == {t \in TagNames : tags[t] # NoCommit}

\* (mutant of ReachableTags: every tag is collected, reachable or not)
ReachableTagsUnfiltered(commitHash) == ExistingTags

\* The tags findTagFromCurrentBranch collects: those whose target is reachable
\* from commitHash.
ReachableTags(commitHash) ==
    {t \in ExistingTags : isCommitReachable(commitHash, tags[t]).ok}

\* sort.Slice(tags, time descending) and tags[0]: the sort is not stable and
\* the store enumerates the tags in no fixed order, so tags[0] is any of the
\* collected tags with the greatest timestamp.
NewestTags(found) ==
    {t \in found : \A u \in found : ctime[tags[t]] >= ctime[tags[u]]}

\* findTagFromCurrentBranch(commitHash).  names: the tag names the call may
\* return.  The object of a (lightweight) tag is its commit: when it cannot be
\* read, or isCommitReachable returns an error, the iteration stops with it.
findTagFromCurrentBranch(commitHash) ==
    LET failing == {t \in ExistingTags :
                       tags[t] \in unreadable \/ isCommitReachable(commitHash, tags[t]).err}
        found == ReachableTags(commitHash)
    IN  IF failing # {}
        THEN [names |-> {""}, err |-> TRUE, io |-> TRUE, rebase |-> NoCommit]
        ELSE [names |-> IF found = {} THEN {SentinelTag} ELSE NewestTags(found),
              err |-> FALSE,
              io |-> \E t \in ExistingTags : isCommitReachable(commitHash, tags[t]).io,
              rebase |-> NoCommit]

\* (mutant of findCommonAncestor: the last common commit of the walk, not the
\* first)
findCommonAncestorLast(commit1, commit2) ==
    IF commit1 = commit2 THEN [commit |-> commit1, err |-> FALSE, io |-> FALSE]
    ELSE IF commit1 \in unreadable \/ commit2 \in unreadable
         THEN [commit |-> NoCommit, err |-> TRUE, io |-> TRUE]
    ELSE LET w2 == Preorder(commit2)
             w1 == Preorder(commit1)
             ancestorsMap == Range(w2.order)
             common == SelectSeq(w1.order, LAMBDA c : c \in ancestorsMap)
         IN  IF w2.failed THEN [commit |-> NoCommit, err |-> TRUE, io |-> TRUE]
             ELSE IF common # <<>>
                  THEN [commit |-> common[Len(common)], err |-> FALSE, io |-> FALSE]
             ELSE [commit |-> NoCommit, err |-> TRUE, io |-> w1.failed]

\* (mutant of findCommonAncestor: commit1 itself is not a candidate)
findCommonAncestorProper(commit1, commit2) ==
    IF commit1 = commit2 THEN [commit |-> commit1, err |-> FALSE, io |-> FALSE]
    ELSE IF commit1 \in unreadable \/ commit2 \in unreadable
         THEN [commit |-> NoCommit, err |-> TRUE, io |-> TRUE]
    ELSE LET w2 == Preorder(commit2)
             w1 == Preorder(commit1)
             ancestorsMap == Range(w2.order)
             common == SelectSeq(Tail(w1.order), LAMBDA c : c \in ancestorsMap)
         IN  IF w2.failed THEN [commit |-> NoCommit, err |-> TRUE, io |-> TRUE]
             ELSE IF common # <<>> THEN [commit |-> Head(common), err |-> FALSE, io |-> FALSE]
             ELSE [commit |-> NoCommit, err |-> TRUE, io |-> w1.failed]

\* findCommonAncestor(commit1, commit2): the first commit of the walk from
\* commit1 that is in the set collected by the walk from commit2.
findCommonAncestor(commit1, commit2) ==
    IF commit1 = commit2 THEN [commit |-> commit1, err |-> FALSE, io |-> FALSE]
    ELSE IF commit1 \in unreadable \/ commit2 \in unreadable
         THEN [commit |-> NoCommit, err |-> TRUE, io |-> TRUE]
    ELSE LET w2 == Preorder(commit2)
             w1 == Preorder(commit1)
             ancestorsMap == Range(w2.order)
             common == SelectSeq(w1.order, LAMBDA c : c \in ancestorsMap)
         IN  IF w2.failed THEN [commit |-> NoCommit, err |-> TRUE, io |-> TRUE]
             ELSE IF common # <<>> THEN [commit |-> Head(common), err |-> FALSE, io |-> FALSE]
             ELSE [commit |-> NoCommit, err |-> TRUE, io |-> w1.failed]

\* The trunk head findTagFromRebasePoint compares with: refs/heads/main, and
\* refs/heads/master when main does not exist; NoCommit when neither exists.
TrunkHead ==
    IF branches["main"] # NoCommit THEN branches["main"] ELSE branches["master"]

\* (mutant of findTagFromRebasePoint: the common ancestor is computed and the
\* tags are still searched from the current commit)
findTagFromRebasePointAtHead(commitHash) ==
    IF TrunkHead = NoCommit THEN findTagFromCurrentBranch(commitHash)
    ELSE LET ca == findCommonAncestor(commitHash, TrunkHead)
         IN  IF ca.err
             THEN LET r == findTagFromCurrentBranch(commitHash)
                  IN  [r EXCEPT !.io = r.io \/ ca.io]
             ELSE [findTagFromCurrentBranch(commitHash) EXCEPT !.rebase = ca.commit]

\* (mutant of findTagFromRebasePoint: the error of findCommonAncestor is
\* returned to the caller)
findTagFromRebasePointStrict(commitHash) ==
    IF TrunkHead = NoCommit THEN findTagFromCurrentBranch(commitHash)
    ELSE LET ca == findCommonAncestor(commitHash, TrunkHead)
         IN  IF ca.err
             THEN [names |-> {""}, err |-> TRUE, io |-> ca.io, rebase |-> NoCommit]
             ELSE [findTagFromCurrentBranch(ca.commit) EXCEPT !.rebase = ca.commit]

\* findTagFromRebasePoint(commitHash, branchName)
findTagFromRebasePoint(commitHash) ==
    IF TrunkHead = NoCommit THEN findTagFromCurrentBranch(commitHash)
    ELSE LET ca == findCommonAncestor(commitHash, TrunkHead)
         IN  IF ca.err
             THEN LET r == findTagFromCurrentBranch(commitHash)
                  IN  [r EXCEPT !.io = r.io \/ ca.io]
             ELSE [findTagFromCurrentBranch(ca.commit) EXCEPT !.rebase = ca.commit]

\* The branch names for which GetLastTag searches from the current commit.
SearchesFromHead(branch) == branch = "main" \/ branch = "master"

\* GoGitHandler.GetLastTag(branchName)
GoGitGetLastTag(branch) ==
    IF ~SearchesFromHead(branch) THEN findTagFromRebasePoint(head)
    ELSE findTagFromCurrentBranch(head)

\* (mutant of countAllCommits: the start commit is not counted)
countAllCommitsButStart(commitHash) ==
    IF commitHash \in unreadable THEN [count |-> 0, err |-> TRUE, io |-> TRUE]
    ELSE LET w == Preorder(commitHash)
         IN  [count |-> Len(w.order) - 1, err |-> w.failed, io |-> w.failed]

\* (mutant of countAllCommits: no visited set, a commit is counted once for
\* every parent path that leads to it)
RECURSIVE VisitsEveryPath(_)
VisitsEveryPath(c) ==
    IF Len(parents[c]) = 0 THEN 1
    ELSE IF Len(parents[c]) = 1 THEN 1 + VisitsEveryPath(parents[c][1])
    ELSE 1 + VisitsEveryPath(parents[c][1]) + VisitsEveryPath(parents[c][2])

countAllCommitsEveryPath(commitHash) ==
    IF commitHash \in unreadable THEN [count |-> 0, err |-> TRUE, io |-> TRUE]
    ELSE [count |-> VisitsEveryPath(commitHash), err |-> FALSE, io |-> FALSE]

\* countAllCommits(commitHash)
countAllCommits(commitHash) ==
    IF commitHash \in unreadable THEN [count |-> 0, err |-> TRUE, io |-> TRUE]
    ELSE LET w == Preorder(commitHash)
         IN  [count |-> Len(w.order), err |-> w.failed, io |-> w.failed]

\* (mutant of CountUntil: the current commit is not counted)
CountUntilSkippingHead(order, tagCommitHash) ==
    IF tagCommitHash \in Range(order) THEN IndexOf(order, tagCommitHash) - 2
    ELSE Len(order) - 1

\* (mutant of CountUntil: the tag's commit is counted too)
CountUntilIncludingTarget(order, tagCommitHash) ==
    IF tagCommitHash \in Range(order) THEN IndexOf(order, tagCommitHash)
    ELSE Len(order)

\* The commits counted by the walk of GetCommitsSinceTag: those handed to the
\* callback before the tag's commit.
CountUntil(order, tagCommitHash) ==
    IF tagCommitHash \in Range(order) THEN IndexOf(order, tagCommitHash) - 1
    ELSE Len(order)

\* GoGitHandler.GetCommitsSinceTag(tagName)
GoGitGetCommitsSinceTag(tagName) ==
    IF tagName = SentinelTag THEN countAllCommits(head)
    ELSE IF tagName \notin ExistingTags \/ tags[tagName] \in unreadable
         THEN [count |-> 0, err |-> TRUE, io |-> TRUE]
    ELSE IF head = tags[tagName] THEN [count |-> 0, err |-> FALSE, io |-> FALSE]
    ELSE IF head \in unreadable THEN [count |-> 0, err |-> TRUE, io |-> TRUE]
    ELSE LET w == Preorder(head)
             found == tags[tagName] \in Range(w.order)
         IN  IF ~found /\ w.failed THEN [count |-> 0, err |-> TRUE, io |-> TRUE]
             ELSE [count |-> CountUntil(w.order, tags[tagName]), err |-> FALSE, io |-> FALSE]

\* The branches GetCurrentBranch finds to contain a detached HEAD: those whose
\* head can be read and whose walk meets the current commit.
ContainingBranches ==
    {b \in TrunkRefs : /\ branches[b] # NoCommit
                       /\ branches[b] \notin unreadable
                       /\ head \in Range(Preorder(branches[b]).order)}

\* GoGitHandler.GetCurrentBranch: the names it may return.
GoGitCurrentBranch ==
    IF headRef # "HEAD" THEN {headRef}
    ELSE IF ContainingBranches # {} THEN ContainingBranches
    ELSE {"detached"}

\* The 40 hexadecimal digits of a commit hash (their first digits are enough).
HashString(c) == ToString(1000000 + c) \o "0000000"

\* GoGitHandler.GetShortHash
GoGitShortHash == SubSeq(HashString(head), 1, 7)

-----------------------------------------------------------------------------
(* SystemGitHandler: the git executable                                     *)

\* the ancestors-or-self of c: what git rev-list c lists
RECURSIVE RevList(_)
RevList(c) == {c} \cup UNION {RevList(parents[c][i]) : i \in 1..Len(parents[c])}

\* git merge-base a b: the best common ancestors, those that are no ancestor
\* of another common ancestor; git prints one of them, and fails when there is
\* none (and when b names no branch: b = NoCommit).
GitMergeBase(a, b) ==
    IF b = NoCommit THEN {}
    ELSE LET common == RevList(a) \cap RevList(b)
         IN  {x \in common : \A y \in common \ {x} : x \notin RevList(y)}

\* git describe --tags --abbrev=0 c: of the tags whose commit is in the
\* history of c, one with the fewest commits between it and c; {} when the
\* command fails because there is no such tag.
GitDescribe(c) ==
    LET cand == {t \in ExistingTags : tags[t] \in RevList(c)}
        depth(t) == Cardinality(RevList(c) \ RevList(tags[t]))
    IN  {t \in cand : \A u \in cand : depth(t) <= depth(u)}

\* the tag names GetLastTag may get from describe, "v0.0.0" when it fails
DescribeOrSentinel(c) == IF GitDescribe(c) = {} THEN {SentinelTag} ELSE GitDescribe(c)

\* SystemGitHandler.findTagFromRebasePoint: merge-base with main, with master
\* when that command fails, and the regular logic when both fail.  The
\* results: the tag name, and the merge base used (NoCommit when none).
SystemGitFindTagFromRebasePoint ==
    LET withMain == GitMergeBase(head, branches["main"])
        withMaster == GitMergeBase(head, branches["master"])
        mergeBases == IF withMain # {} THEN withMain ELSE withMaster
    IN  IF mergeBases = {}
        THEN {[name |-> t, rebase |-> NoCommit] : t \in DescribeOrSentinel(head)}
        ELSE UNION {{[name |-> t, rebase |-> mb] : t \in DescribeOrSentinel(mb)} :
                        mb \in mergeBases}

\* SystemGitHandler.GetLastTag(branchName)
SystemGitGetLastTag(branch) ==
    IF branch # "main" /\ branch # "master" THEN SystemGitFindTagFromRebasePoint
    ELSE {[name |-> t, rebase |-> NoCommit] : t \in DescribeOrSentinel(head)}

\* SystemGitHandler.GetCommitsSinceTag(tagName)
SystemGitGetCommitsSinceTag(tagName) ==
    IF tagName = SentinelTag THEN Cardinality(RevList(head))
    ELSE IF head = tags[tagName] THEN 0
    ELSE Cardinality(RevList(head) \ RevList(tags[tagName]))

\* SystemGitHandler.GetCurrentBranch: for a detached HEAD the first line of
\* git branch --contains HEAD that names a branch; git lists them sorted.
SystemGitCurrentBranch ==
    IF headRef # "HEAD" THEN headRef
    ELSE IF branches["main"] # NoCommit /\ head \in RevList(branches["main"]) THEN "main"
    ELSE IF branches["master"] # NoCommit /\ head \in RevList(branches["master"]) THEN "master"
    ELSE "detached"

\* SystemGitHandler.GetShortHash: git rev-parse --short HEAD
SystemGitShortHash == SubSeq(HashString(head), 1, 7)

-----------------------------------------------------------------------------
(* versionSchemes.VersionGenerator                                          *)

Allowed ==
    {"a","b","c","d","e","f","g","h","i","j","k","l","m","n","o","p","q","r","s","t",
     "u","v","w","x","y","z","A","B","C","D","E","F","G","H","I","J","K","L","M","N",
     "O","P","Q","R","S","T","U","V","W","X","Y","Z","0","1","2","3","4","5","6","7",
     "8","9","-"}

\* (mutant of cleanBranchName: a dot is kept)
RECURSIVE cleanBranchNameKeepDots(_)
cleanBranchNameKeepDots(s) ==
    IF Len(s) = 0 THEN ""
    ELSE (IF Head(s) \in Allowed \cup {"."} THEN Head(s) ELSE "-")
             \o cleanBranchNameKeepDots(Tail(s))

\* regexp [^a-zA-Z0-9\-] ReplaceAllString(branchName, "-")
RECURSIVE cleanBranchName(_)
cleanBranchName(s) ==
    IF Len(s) = 0 THEN ""
    ELSE (IF Head(s) \in Allowed THEN Head(s) ELSE "-") \o cleanBranchName(Tail(s))

\* (mutant of isMainBranch: detached is an ordinary branch)
isMainBranchNotDetached(b) == b = "main" \/ b = "master"

isMainBranch(b) == b = "main" \/ b = "master" \/ b = "detached"

\* (mutant of GenerateLegacy: only main and master are main branches)
GenerateLegacyMainMasterOnly(tag, n, hash, branch, docker) ==
    IF n = 0 THEN tag
    ELSE IF branch = "main" \/ branch = "master"
         THEN (IF docker THEN tag \o "-" \o ToString(n)
                         ELSE tag \o "+" \o ToString(n))
    ELSE IF docker
         THEN tag \o "-" \o cleanBranchName(branch) \o "-" \o ToString(n)
         ELSE tag \o "-" \o cleanBranchName(branch) \o "+" \o ToString(n)

\* VersionGenerator.GenerateLegacy
GenerateLegacy(tag, n, hash, branch, docker) ==
    IF n = 0 THEN tag
    ELSE IF isMainBranch(branch)
         THEN (IF docker THEN tag \o "-" \o ToString(n)
                               ELSE tag \o "+" \o ToString(n))
    ELSE IF docker
         THEN tag \o "-" \o cleanBranchName(branch) \o "-" \o ToString(n)
         ELSE tag \o "-" \o cleanBranchName(branch) \o "+" \o ToString(n)

hasVersionPrefix(v) == Len(v) >= 1 /\ SubSeq(v, 1, 1) = "v"

ensureVersionPrefix(v) == IF ~hasVersionPrefix(v) THEN "v" \o v ELSE v

\* fmt "%02d" of a month
Pad2(m) == IF m < 10 THEN "0" \o ToString(m) ELSE ToString(m)

\* (mutant of GenerateCalVer: the month is not padded)
GenerateCalVerUnpadded(tag, n, branch, includeHash, hash) ==
    LET date == ToString(now.year) \o "." \o ToString(now.month)
        counted == IF n > 0 THEN date \o "." \o ToString(n) ELSE date
        branched == IF ~isMainBranch(branch)
                    THEN counted \o "-" \o cleanBranchName(branch) ELSE counted
    IN  IF includeHash /\ hash # "" THEN branched \o "+" \o hash ELSE branched

\* VersionGenerator.GenerateCalVer; time.Now() is the variable now
GenerateCalVer(tag, n, branch, includeHash, hash) ==
    LET date == ToString(now.year) \o "." \o Pad2(now.month)
        counted == IF n > 0 THEN date \o "." \o ToString(n) ELSE date
        branched == IF ~isMainBranch(branch)
                    THEN counted \o "-" \o cleanBranchName(branch) ELSE counted
    IN  IF includeHash /\ hash # "" THEN branched \o "+" \o hash ELSE branched

\* VersionGenerator.GenerateSemVer
GenerateSemVer(tag, n, branch, includeHash, hash) ==
    IF n = 0 /\ ~includeHash THEN tag
    ELSE LET core == IF hasVersionPrefix(tag) THEN SubSeq(tag, 2, Len(tag)) ELSE tag
             body == IF isMainBranch(branch)
                     THEN (IF n > 0 THEN core \o "-dev." \o ToString(n) ELSE core)
                     ELSE (IF n > 0
                           THEN core \o "-" \o cleanBranchName(branch) \o "." \o ToString(n)
                           ELSE core \o "-" \o cleanBranchName(branch))
             hashed == IF includeHash /\ hash # "" THEN body \o "+" \o hash ELSE body
         IN  ensureVersionPrefix(hashed)

\* (mutant of GenerateSimple: the hash is appended whether asked for or not)
GenerateSimpleAlwaysHash(tag, hash, includeHash) == tag \o "+" \o hash

\* VersionGenerator.GenerateSimple
GenerateSimple(tag, hash, includeHash) ==
    IF includeHash THEN tag \o "+" \o hash ELSE tag

\* (mutant of GenerateDefault: the count follows a "-", as in docker format)
GenerateDefaultDashCount(tag, n, hash, branch, includeHash) ==
    IF n = 0 /\ ~includeHash THEN tag
    ELSE LET body == IF isMainBranch(branch)
                     THEN (IF n > 0 THEN tag \o "-" \o ToString(n) ELSE tag)
                     ELSE (IF n > 0
                           THEN tag \o "-" \o cleanBranchName(branch) \o "-" \o ToString(n)
                           ELSE tag \o "-" \o cleanBranchName(branch))
         IN  IF includeHash THEN body \o "+" \o hash ELSE body

\* VersionGenerator.GenerateDefault
GenerateDefault(tag, n, hash, branch, includeHash) ==
    IF n = 0 /\ ~includeHash THEN tag
    ELSE LET body == IF isMainBranch(branch)
                     THEN (IF n > 0 THEN tag \o "+" \o ToString(n) ELSE tag)
                     ELSE (IF n > 0
                           THEN tag \o "-" \o cleanBranchName(branch) \o "+" \o ToString(n)
                           ELSE tag \o "-" \o cleanBranchName(branch))
         IN  IF includeHash THEN body \o "+" \o hash ELSE body

\* (mutant of GenerateVersion: exactly on a tag the version prefix is ensured)
GenerateVersionPrefixing(tag, n, hash, branch, opts) ==
    IF n = 0 /\ ~opts.Hash
    THEN (IF opts.Simple THEN ensureVersionPrefix(tag)
          ELSE IF opts.CalVer THEN GenerateCalVer(tag, 0, branch, FALSE, hash)
          ELSE ensureVersionPrefix(tag))
    ELSE IF opts.CalVer THEN GenerateCalVer(tag, n, branch, opts.Hash, hash)
    ELSE IF opts.Semver THEN GenerateSemVer(tag, n, branch, opts.Hash, hash)
    ELSE IF opts.Simple THEN GenerateSimple(tag, hash, opts.Hash)
    ELSE GenerateDefault(tag, n, hash, branch, opts.Hash)

\* VersionGenerator.GenerateVersion
GenerateVersion(tag, n, hash, branch, opts) ==
    IF n = 0 /\ ~opts.Hash
    THEN (IF opts.Simple THEN tag
          ELSE IF opts.CalVer THEN GenerateCalVer(tag, 0, branch, FALSE, hash)
          ELSE tag)
    ELSE IF opts.CalVer THEN GenerateCalVer(tag, n, branch, opts.Hash, hash)
    ELSE IF opts.Semver THEN GenerateSemVer(tag, n, branch, opts.Hash, hash)
    ELSE IF opts.Simple THEN GenerateSimple(tag, hash, opts.Hash)
    ELSE GenerateDefault(tag, n, hash, branch, opts.Hash)

-----------------------------------------------------------------------------
(* The formatting kept inside SystemGitHandler (systemgit_handler.go)       *)

\* SystemGitHandler.generateVersionString
generateVersionString(tag, n, hash, branch, docker) ==
    IF n = 0 THEN tag
    ELSE IF branch = "main" \/ branch = "master"
         THEN (IF docker THEN tag \o "-" \o ToString(n)
                         ELSE tag \o "+" \o ToString(n))
    ELSE IF docker
         THEN tag \o "-" \o cleanBranchName(branch) \o "-" \o ToString(n)
         ELSE tag \o "-" \o cleanBranchName(branch) \o "+" \o ToString(n)

\* SystemGitHandler.generateCalVerString
generateCalVerString(tag, n, hash, branch, includeHash) ==
    LET date == ToString(now.year) \o "." \o Pad2(now.month)
        counted == IF n > 0 THEN date \o "." \o ToString(n) ELSE date
        branched == IF branch # "main" /\ branch # "master" /\ branch # "detached"
                    THEN counted \o "-" \o cleanBranchName(branch) ELSE counted
    IN  IF includeHash THEN branched \o "+" \o hash ELSE branched

\* SystemGitHandler.generateSemVerString
generateSemVerString(tag, n, hash, branch, includeHash) ==
    IF n = 0 /\ ~includeHash THEN tag
    ELSE LET core == IF hasVersionPrefix(tag) THEN SubSeq(tag, 2, Len(tag)) ELSE tag
             body == IF branch = "main" \/ branch = "master" \/ branch = "detached"
                     THEN (IF n > 0 THEN core \o "-dev." \o ToString(n) ELSE core)
                     ELSE (IF n > 0
                           THEN core \o "-" \o cleanBranchName(branch) \o "." \o ToString(n)
                           ELSE core \o "-" \o cleanBranchName(branch))
             hashed == IF includeHash THEN body \o "+" \o hash ELSE body
         IN  "v" \o hashed

\* SystemGitHandler.generateSimpleString
generateSimpleString(tag, n, hash, includeHash) ==
    IF includeHash THEN tag \o "+" \o hash ELSE tag

\* SystemGitHandler.generateDefaultString
generateDefaultString(tag, n, hash, branch, includeHash) ==
    IF n = 0 /\ ~includeHash THEN tag
    ELSE LET body == IF branch = "main" \/ branch = "master" \/ branch = "detached"
                     THEN (IF n > 0 THEN tag \o "+" \o ToString(n) ELSE tag)
                     ELSE (IF n > 0
                           THEN tag \o "-" \o cleanBranchName(branch) \o "+" \o ToString(n)
                           ELSE tag \o "-" \o cleanBranchName(branch))
         IN  IF includeHash THEN body \o "+" \o hash ELSE body

\* SystemGitHandler.convertToCalVer
convertToCalVer(tag, n, branch, includeHash) ==
    generateCalVerString(tag, n, "", branch, includeHash)

\* SystemGitHandler.generateVersionStringWithOptions
generateVersionStringWithOptions(tag, n, hash, branch, opts) ==
    IF n = 0 /\ ~opts.Hash
    THEN (IF opts.Simple THEN tag
          ELSE IF opts.CalVer THEN convertToCalVer(tag, 0, branch, FALSE)
          ELSE tag)
    ELSE IF opts.CalVer THEN generateCalVerString(tag, n, hash, branch, opts.Hash)
    ELSE IF opts.Semver THEN generateSemVerString(tag, n, hash, branch, opts.Hash)
    ELSE IF opts.Simple THEN generateSimpleString(tag, n, hash, opts.Hash)
    ELSE generateDefaultString(tag, n, hash, branch, opts.Hash)

-----------------------------------------------------------------------------
(* Initial states: the repository snapshots of the model *)

\* What Init leaves open once the commit graph and the tags are chosen.
HeadAndBranches ==
    /\ head \in Commits
    /\ headRef \in HeadRefs
    /\ branches \in [TrunkRefs -> {NoCommit} \cup Commits]
    \* the branch HEAD names has the current commit as its head
    /\ headRef \in TrunkRefs => branches[headRef] = head

\* Every graph of MaxCommits commits with merges, every placement of the tags.
RepoGeneral ==
    /\ parents \in [1..MaxCommits -> UNION {ParentSeqs(c) : c \in 1..MaxCommits}]
    /\ \A c \in Commits : parents[c] \in ParentSeqs(c)
    /\ tags \in [TagNames -> {NoCommit} \cup Commits]
    /\ ctime \in [Commits -> Times]
    \* only the timestamp of a tagged commit is ever read, and only its order
    \* counts: the oldest tagged commit has timestamp 1
    /\ {c \in Commits : ctime[c] # 1} \subseteq {tags[t] : t \in TagNames}
    /\ {tags[t] : t \in TagNames} \subseteq {NoCommit} \cup {c \in Commits : ctime[c] # 1}
           => {tags[t] : t \in TagNames} = {NoCommit}
    /\ HeadAndBranches

\* One line of up to MaxLinear commits, with at most one tag.
RepoChain ==
    /\ \E n \in 1..MaxLinear : parents = [c \in 1..n |-> IF c = 1 THEN <<>> ELSE <<c - 1>>]
    /\ tags \in [TagNames -> {NoCommit} \cup Commits]
    /\ \E t \in TagNames : tags[t] = NoCommit
    /\ ctime = [c \in Commits |-> 1]
    /\ HeadAndBranches
    /\ branches["master"] \in {NoCommit, head}

\* main, getFilePath(providedPath, defaultFilename)
getFilePath(providedPath, defaultFilename) ==
    IF providedPath = "" THEN defaultFilename
    ELSE IF SubSeq(providedPath, Len(providedPath), Len(providedPath)) = "/"
         THEN providedPath \o defaultFilename
    ELSE providedPath

\* the paths a file flag may come with: none, a directory, a file
ProvidedPaths == {"", "build/", "out/version.txt"}

\* the file flags of the CLI struct and their paths
CliFiles ==
    [Go : BOOLEAN, GoPath : ProvidedPaths, Cpp : BOOLEAN, CppPath : {"", "build/"},
     Yaml : BOOLEAN, YamlPath : {"", "build/"}, File : BOOLEAN, FilePath : {"", "build/"}]

\* no file flag: the version goes to standard output
NoFileFlags ==
    [Go |-> FALSE, GoPath |-> "", Cpp |-> FALSE, CppPath |-> "", Yaml |-> FALSE,
     YamlPath |-> "", File |-> FALSE, FilePath |-> ""]

\* a run without file flags that has written nothing yet
NoOutput == cli = NoFileFlags /\ files = {}

\* versionSchemes.VersioningOptions
VersioningOptions == [Semver : BOOLEAN, CalVer : BOOLEAN, Simple : BOOLEAN, Hash : BOOLEAN]

\* no scheme flag and no --hash: main calls GenerateVersionInfo(false)
NoOptions == [Semver |-> FALSE, CalVer |-> FALSE, Simple |-> FALSE, Hash |-> FALSE]

\* the months time.Now() falls in: one that needs padding, one that does not
Dates == {[year |-> 2025, month |-> 8], [year |-> 2024, month |-> 12]}

InitRun ==
    /\ NoOutput
    /\ options = NoOptions
    /\ dockerFormat = FALSE
    /\ now \in {d \in Dates : d.month = 8}
    /\ pc = "start"
    /\ branchName = ""
    /\ shortHash = ""
    /\ lastTag = ""
    /\ commitsSince = 0
    /\ version = ""
    /\ err = FALSE
    /\ rebasePoint = NoCommit
    /\ ioFailed = FALSE

\* the go-git handler; every object of the store can be read
Init ==
    /\ (RepoGeneral \/ RepoChain)
    /\ unreadable = {}
    /\ inBuiltGit = TRUE
    /\ InitRun

\* the system git handler
InitSystemGit ==
    /\ (RepoGeneral \/ RepoChain)
    /\ unreadable = {}
    /\ inBuiltGit = FALSE
    /\ InitRun

-----------------------------------------------------------------------------
(* GenerateVersionInfo(false) of the handler GetGitHandler returned *)

Fail(io) ==
    /\ pc' = "done"
    /\ err' = TRUE
    /\ ioFailed' = (ioFailed \/ io)

GetCurrentBranch ==
    /\ pc = "start"
    /\ \E b \in (IF inBuiltGit THEN GoGitCurrentBranch ELSE {SystemGitCurrentBranch}) :
           branchName' = b
    /\ pc' = "hash"
    /\ UNCHANGED <<repoVars, shortHash, lastTag, commitsSince, version, err, rebasePoint, ioFailed>>

GetShortHash ==
    /\ pc = "hash"
    /\ shortHash' = (IF inBuiltGit THEN GoGitShortHash ELSE SystemGitShortHash)
    /\ pc' = "tag"
    /\ UNCHANGED <<repoVars, branchName, lastTag, commitsSince, version, err, rebasePoint, ioFailed>>

GetLastTag ==
    /\ pc = "tag"
    /\ IF inBuiltGit
       THEN LET r == GoGitGetLastTag(branchName)
            IN  IF r.err
                THEN Fail(r.io) /\ UNCHANGED <<lastTag, rebasePoint>>
                ELSE /\ \E t \in r.names : lastTag' = t
                     /\ rebasePoint' = r.rebase
                     /\ pc' = "count"
                     /\ ioFailed' = (ioFailed \/ r.io)
                     /\ UNCHANGED err
       ELSE /\ \E r \in SystemGitGetLastTag(branchName) :
                   lastTag' = r.name /\ rebasePoint' = r.rebase
            /\ pc' = "count"
            /\ UNCHANGED <<err, ioFailed>>
    /\ UNCHANGED <<repoVars, branchName, shortHash, commitsSince, version>>

GetCommitsSinceTag ==
    /\ pc = "count"
    /\ IF inBuiltGit
       THEN LET r == GoGitGetCommitsSinceTag(lastTag)
            IN  IF r.err
                THEN Fail(r.io) /\ UNCHANGED commitsSince
                ELSE /\ commitsSince' = r.count
                     /\ pc' = "format"
                     /\ ioFailed' = (ioFailed \/ r.io)
                     /\ UNCHANGED err
       ELSE /\ commitsSince' = SystemGitGetCommitsSinceTag(lastTag)
            /\ pc' = "format"
            /\ UNCHANGED <<err, ioFailed>>
    /\ UNCHANGED <<repoVars, branchName, shortHash, lastTag, version, rebasePoint>>

\* BaseGitHandler.GenerateVersionInfoFromComponents; main calls
\* GenerateVersionInfo(false) when no scheme flag is set
GenerateVersionInfoFromComponents ==
    /\ pc = "format"
    /\ version' = GenerateLegacy(lastTag, commitsSince, shortHash, branchName, dockerFormat)
    /\ pc' = "done"
    /\ UNCHANGED <<repoVars, branchName, shortHash, lastTag, commitsSince, err, rebasePoint, ioFailed>>

Next ==
    \/ GetCurrentBranch
    \/ GetShortHash
    \/ GetLastTag
    \/ GetCommitsSinceTag
    \/ GenerateVersionInfoFromComponents

Spec == Init /\ [][Next]_vars

\* The same run on a repository in which one commit object cannot be read
\* (a missing or corrupt object, the boundary of a shallow clone).
InitUnreadable ==
    /\ RepoGeneral
    /\ \E c \in Commits : unreadable = {c}
    /\ inBuiltGit = TRUE
    /\ InitRun

SpecSystemGit == InitSystemGit /\ [][Next]_vars

SpecUnreadable == InitUnreadable /\ [][Next]_vars

-----------------------------------------------------------------------------
(* The version generator on its own: GenerateVersion applied to components  *)
(* drawn from bounded sets, as GenerateVersionInfoFromComponentsWithOptions *)
(* hands them over.                                                         *)

FormatTags == {"v1.2.3", "1.2.3", "vv2.0.0", SentinelTag}
FormatBranches == {"main", "master", "detached", "feature/auth", "release/2.0", "fix_9-B"}
ShortHashes == {"abc1234", ""}
BranchAlphabet == {"a", "Z", "9", "-", "/", "."}

\* the strings of at most n characters of BranchAlphabet
RECURSIVE StringsUpTo(_)
StringsUpTo(n) ==
    IF n = 0 THEN {""}
    ELSE LET shorter == StringsUpTo(n - 1)
         IN  shorter \cup {c \o t : c \in BranchAlphabet, t \in shorter}

\* a repository of one commit: the components below do not come from it
OneCommitRepo ==
    /\ parents = <<<<>>>>
    /\ ctime = <<1>>
    /\ tags = [t \in TagNames |-> NoCommit]
    /\ branches = [r \in TrunkRefs |-> NoCommit]
    /\ head = 1
    /\ headRef = "HEAD"
    /\ unreadable = {}
    /\ inBuiltGit = FALSE
    /\ rebasePoint = NoCommit
    /\ ioFailed = FALSE
    /\ err = FALSE

\* every tag, distance, branch, short hash, option set and month of the bounds
InitFormat ==
    /\ OneCommitRepo
    /\ options \in VersioningOptions
    /\ now \in Dates
    /\ dockerFormat = FALSE
    /\ NoOutput
    /\ pc = "format"
    /\ branchName \in FormatBranches
    /\ shortHash \in ShortHashes
    /\ lastTag \in FormatTags
    /\ commitsSince \in 0..MaxDistance
    /\ version = ""

\* every branch name of at most MaxBranchLen characters of BranchAlphabet
InitSanitize ==
    /\ OneCommitRepo
    /\ options \in {o \in VersioningOptions : ~o.Hash /\ ~o.Simple}
    /\ now \in {d \in Dates : d.month = 8}
    /\ dockerFormat = FALSE
    /\ NoOutput
    /\ pc = "format"
    /\ branchName \in StringsUpTo(MaxBranchLen)
    /\ shortHash = "abc1234"
    /\ lastTag = "v1.2.3"
    /\ commitsSince \in 0..1
    /\ version = ""

\* BaseGitHandler.GenerateVersionInfoFromComponentsWithOptions
GenerateVersionInfoFromComponentsWithOptions ==
    /\ pc = "format"
    /\ version' = GenerateVersion(lastTag, commitsSince, shortHash, branchName, options)
    /\ pc' = "done"
    /\ UNCHANGED <<repoVars, branchName, shortHash, lastTag, commitsSince, err, rebasePoint, ioFailed>>

NextFormat == GenerateVersionInfoFromComponentsWithOptions

SpecFormat == InitFormat /\ [][NextFormat]_vars

SpecSanitize == InitSanitize /\ [][NextFormat]_vars

\* the legacy entry point: every tag, distance, branch and both formats
InitLegacy ==
    /\ OneCommitRepo
    /\ options = NoOptions
    /\ now \in {d \in Dates : d.month = 8}
    /\ dockerFormat \in BOOLEAN
    /\ NoOutput
    /\ pc = "format"
    /\ branchName \in FormatBranches
    /\ shortHash \in ShortHashes
    /\ lastTag \in FormatTags
    /\ commitsSince \in 0..MaxDistance
    /\ version = ""

NextLegacy == GenerateVersionInfoFromComponents

SpecLegacy == InitLegacy /\ [][NextLegacy]_vars

\* the last step of SystemGitHandler.GenerateVersionInfo in systemgit_handler.go
SystemGitGenerateVersionString ==
    /\ pc = "format"
    /\ version' = generateVersionString(lastTag, commitsSince, shortHash, branchName,
                                        dockerFormat)
    /\ pc' = "done"
    /\ UNCHANGED <<repoVars, branchName, shortHash, lastTag, commitsSince, err, rebasePoint, ioFailed>>

\* the last step of SystemGitHandler.GenerateVersionInfoWithOptions in
\* systemgit_handler.go
SystemGitGenerateVersionStringWithOptions ==
    /\ pc = "format"
    /\ version' = generateVersionStringWithOptions(lastTag, commitsSince, shortHash,
                                                   branchName, options)
    /\ pc' = "done"
    /\ UNCHANGED <<repoVars, branchName, shortHash, lastTag, commitsSince, err, rebasePoint, ioFailed>>

NextSystemGitLegacy == SystemGitGenerateVersionString

NextSystemGitOptions == SystemGitGenerateVersionStringWithOptions

SpecSystemGitLegacy == InitLegacy /\ [][NextSystemGitLegacy]_vars

SpecSystemGitOptions == InitFormat /\ [][NextSystemGitOptions]_vars

-----------------------------------------------------------------------------
(* The end of main: the version is printed or written to one file           *)

OutputVersions == {"v1.2.3", "v1.2.3-feature-auth+3"}

\* main after GenerateVersionInfo has returned a version, for every
\* combination of the file flags and their paths
InitOutput ==
    /\ OneCommitRepo
    /\ options = NoOptions
    /\ now \in {d \in Dates : d.month = 8}
    /\ dockerFormat = FALSE
    /\ cli \in CliFiles
    /\ files = {}
    /\ pc = "done"
    /\ branchName = "main"
    /\ shortHash = "abc1234"
    /\ lastTag = "v1.2.3"
    /\ commitsSince = 0
    /\ version \in OutputVersions

\* main: the switch over the file flags, then Println or WriteVersion
WriteVersion ==
    /\ pc = "done"
    /\ ~err
    /\ files' =
          IF cli.Go THEN {[path |-> getFilePath(cli.GoPath, "version.go"), type |-> "go"]}
          ELSE IF cli.Cpp
               THEN {[path |-> getFilePath(cli.CppPath, "version.h"), type |-> "cpp"]}
          ELSE IF cli.Yaml
               THEN {[path |-> getFilePath(cli.YamlPath, "version.yaml"), type |-> "yaml"]}
          ELSE IF cli.File
               THEN {[path |-> getFilePath(cli.FilePath, ".VERSION"), type |-> "file"]}
          ELSE {[path |-> "", type |-> "stdout"]}
    /\ pc' = "written"
    /\ UNCHANGED <<parents, ctime, tags, branches, head, headRef, unreadable, inBuiltGit,
                   options, now, dockerFormat, cli>>
    /\ UNCHANGED <<branchName, shortHash, lastTag, commitsSince, version, err,
                   rebasePoint, ioFailed>>

NextOutput == WriteVersion

SpecOutput == InitOutput /\ [][NextOutput]_vars

-----------------------------------------------------------------------------
(* What the claims speak about, stated on the commit graph itself *)

\* the ancestors-or-self of c over all parent edges
RECURSIVE Ancestors(_)
Ancestors(c) == {c} \cup UNION {Ancestors(parents[c][i]) : i \in 1..Len(parents[c])}

\* a linear history: no commit has more than one parent
IsLinear == \A c \in Commits : Len(parents[c]) <= 1

\* the spec's trunk branches
IsTrunkBranch(b) == b \in {"main", "master", "detached"}

\* the tags whose target is c or an ancestor of c over any parent edge
TagsReachableFrom(c) == {t \in ExistingTags : tags[t] \in Ancestors(c)}

\* t is a tag of S whose target has the most recent timestamp of S
IsNewestOf(t, S) == t \in S /\ \A u \in S : ctime[tags[t]] >= ctime[tags[u]]

\* the result of the trunk logic started at c
IsTrunkResult(t, c) ==
    IF TagsReachableFrom(c) = {} THEN t = SentinelTag
    ELSE IsNewestOf(t, TagsReachableFrom(c))

\* the commits that are ancestors-or-self of both a and b
CommonAncestors(a, b) == Ancestors(a) \cap Ancestors(b)

\* x is the lowest common ancestor of a and b: a common ancestor that every
\* common ancestor is an ancestor of
IsLowestCommonAncestor(x, a, b) ==
    x \in CommonAncestors(a, b) /\ \A y \in CommonAncestors(a, b) : y \in Ancestors(x)

\* The traversal order of the claims: the commit, then its parents depth
\* first, first parent first, no commit twice.
RECURSIVE DepthFirst(_, _, _)
DepthFirst(todo, visited, out) ==
    IF todo = <<>> THEN out
    ELSE IF Head(todo) \in visited THEN DepthFirst(Tail(todo), visited, out)
    ELSE DepthFirst(parents[Head(todo)] \o Tail(todo), visited \cup {Head(todo)},
                    Append(out, Head(todo)))

TraversalOrder(c) == DepthFirst(<<c>>, {}, <<>>)

\* the first commit of the traversal from a that is an ancestor-or-self of b
FirstCommonInTraversal(a, b) ==
    Head(SelectSeq(TraversalOrder(a), LAMBDA c : c \in Ancestors(b)))

\* the commits strictly between the commit a and its ancestor t: in the
\* history of a, not in the history of t, and not a itself
StrictlyBetween(a, t) == (Ancestors(a) \ Ancestors(t)) \ {a}

\* the number of parent paths from the commit a to the commit c
RECURSIVE PathCount(_, _)
PathCount(a, c) ==
    IF a = c THEN 1
    ELSE IF Len(parents[a]) = 0 THEN 0
    ELSE IF Len(parents[a]) = 1 THEN PathCount(parents[a][1], c)
    ELSE PathCount(parents[a][1], c) + PathCount(parents[a][2], c)

\* the characters sanitization keeps: [A-Za-z0-9-]
SanitizedChars ==
    {"a","b","c","d","e","f","g","h","i","j","k","l","m","n","o","p","q","r","s","t",
     "u","v","w","x","y","z"}
    \cup {"A","B","C","D","E","F","G","H","I","J","K","L","M","N","O","P","Q","R","S",
          "T","U","V","W","X","Y","Z"}
    \cup {"0","1","2","3","4","5","6","7","8","9"} \cup {"-"}

\* the scheme selector of the formatter: one scheme flag, or none (Default)
IsDefaultScheme(o) == ~o.Semver /\ ~o.CalVer /\ ~o.Simple
IsSemverScheme(o) == o.Semver /\ ~o.CalVer /\ ~o.Simple
IsCalVerScheme(o) == o.CalVer /\ ~o.Semver /\ ~o.Simple
IsSimpleScheme(o) == o.Simple /\ ~o.Semver /\ ~o.CalVer

\* the tag with a single leading "v" stripped if present
SemverCore(t) == IF Len(t) >= 1 /\ SubSeq(t, 1, 1) = "v" THEN SubSeq(t, 2, Len(t)) ELSE t

\* the current date as year "." month, the month zero-padded to two digits
YearMonth == ToString(now.year) \o "." \o (IF now.month < 10 THEN "0" ELSE "")
                 \o ToString(now.month)

\* the string sub occurs in the string s
Contains(s, sub) ==
    \E i \in 1..(Len(s) - Len(sub) + 1) : SubSeq(s, i, i + Len(sub) - 1) = sub

\* the version carries the sanitized name of the branch
IncludesBranch == Contains(version, cleanBranchName(branchName))

\* the files an invocation asks for: one of every file type whose flag is
\* set, at its custom path, or at its default name
RequestedFiles ==
    {[path |-> IF cli.GoPath = "" THEN "version.go" ELSE getFilePath(cli.GoPath, "version.go"),
      type |-> "go"] : x \in {y \in {1} : cli.Go}}
    \cup {[path |-> IF cli.CppPath = "" THEN "version.h"
                    ELSE getFilePath(cli.CppPath, "version.h"),
           type |-> "cpp"] : x \in {y \in {1} : cli.Cpp}}
    \cup {[path |-> IF cli.YamlPath = "" THEN "version.yaml"
                    ELSE getFilePath(cli.YamlPath, "version.yaml"),
           type |-> "yaml"] : x \in {y \in {1} : cli.Yaml}}
    \cup {[path |-> IF cli.FilePath = "" THEN ".VERSION"
                    ELSE getFilePath(cli.FilePath, ".VERSION"),
           type |-> "file"] : x \in {y \in {1} : cli.File}}

\* the options that select one scheme s, with the hash flag h
OneScheme(s, h) ==
    [Semver |-> s = "Semver", CalVer |-> s = "CalVer", Simple |-> s = "Simple", Hash |-> h]

\* the scheme of the precedence CalVer over Semver over Simple over Default
SchemeByPrecedence(o) ==
    IF o.CalVer THEN "CalVer" ELSE IF o.Semver THEN "Semver"
    ELSE IF o.Simple THEN "Simple" ELSE "Default"

\* the trunk head of the claims: the head of main, of master when there is
\* no main, NoCommit when there is neither
ClaimedTrunkHead ==
    IF branches["main"] # NoCommit THEN branches["main"] ELSE branches["master"]

\* GetLastTag has returned
LastTagReturned == pc \in {"count", "format", "done"}

TagResolved == pc \in {"count", "format", "done"} /\ ~err
Counted == pc \in {"format", "done"} /\ ~err
Finished == pc = "done" /\ ~err

-----------------------------------------------------------------------------
(* Claims *)

\* C1: the commit distance is >= 0, and it is 0 exactly when the current
\* commit is the target commit of the resolved tag.
C1_DistanceZeroIffOnTag ==
    Counted =>
        /\ commitsSince >= 0
        /\ commitsSince = 0 <=> (lastTag \in ExistingTags /\ tags[lastTag] = head)

\* C1 witness: on a feature branch the resolved tag sits on the current
\* commit and the distance is 0; the other tag is further away.
C1_Witness ==
    /\ Counted
    /\ branchName = FeatureBranch
    /\ lastTag \in ExistingTags
    /\ tags[lastTag] = head
    /\ commitsSince = 0

\* C2 (as claimed): when the current commit carries a tag, the generated
\* version is the name of a tag on that commit, with no suffix, on any branch.
C2_OnTagVersionIsTag ==
    (Finished /\ \E t \in ExistingTags : tags[t] = head) =>
        (version \in ExistingTags /\ tags[version] = head)

\* C3 (as claimed): on a trunk branch (main, master, detached) the resolved
\* tag is the newest of the tags reachable from the current commit over all
\* parent edges, and never an unreachable one.
C3_TrunkNewestReachable ==
    (TagResolved /\ IsTrunkBranch(branchName)) => IsTrunkResult(lastTag, head)

\* C3 on main and master alone, where the code does search from the current
\* commit (the failure of C3 is the one of C5).
C3_OnMainAndMaster ==
    (TagResolved /\ branchName \in {"main", "master"}) => IsTrunkResult(lastTag, head)

\* C4: when no tag is reachable from the current commit, the tag is the
\* sentinel v0.0.0 and the distance is the number of ancestors of the current
\* commit, itself included; a trunk branch with 10 commits and no tags gives
\* v0.0.0, 10 and v0.0.0+10.
C4_NoTagSentinelAndCount ==
    /\ (Counted /\ TagsReachableFrom(head) = {}) =>
           /\ lastTag = "v0.0.0"
           /\ commitsSince = Cardinality(Ancestors(head))
    /\ (Finished /\ ExistingTags = {} /\ IsTrunkBranch(branchName)
          /\ Cardinality(Ancestors(head)) = 10) =>
           /\ lastTag = "v0.0.0"
           /\ commitsSince = 10
           /\ version = "v0.0.0+10"

\* C4 witness: a finished run on main, 10 commits, no tags.
C4_Witness ==
    /\ Finished
    /\ branchName = "main"
    /\ ExistingTags = {}
    /\ Cardinality(Ancestors(head)) = 10
    /\ version = "v0.0.0+10"

\* C5 (as claimed): with the branch name "detached" GetLastTag returns what
\* the trunk logic returns from the current commit, as for main and master.
C5_DetachedIsTrunk ==
    (TagResolved /\ branchName = "detached") => IsTrunkResult(lastTag, head)

\* C6 (as claimed): on a non-trunk branch the trunk head is the head of main,
\* and the head of master only when main does not exist; with no trunk head,
\* or none that shares history with the current commit, GetLastTag returns
\* without an error a tag found from the current commit (the sentinel when
\* none is reachable from it); otherwise the rebase point is a common
\* ancestor of the current commit and that trunk head.
C6_MainThenMaster ==
    (LastTagReturned /\ ~IsTrunkBranch(branchName)) =>
        /\ ~err
        /\ IF ClaimedTrunkHead = NoCommit \/ CommonAncestors(head, ClaimedTrunkHead) = {}
           THEN /\ rebasePoint = NoCommit
                /\ IF TagsReachableFrom(head) = {} THEN lastTag = SentinelTag
                   ELSE lastTag \in TagsReachableFrom(head)
           ELSE rebasePoint \in CommonAncestors(head, ClaimedTrunkHead)

\* C6 on the go-git handler, where it holds, with the full trunk logic in the
\* fallback (checked under Spec; C6_MainThenMaster fails under SpecSystemGit).
C6_GoGitMainThenMaster ==
    (LastTagReturned /\ ~IsTrunkBranch(branchName)) =>
        /\ ~err
        /\ IF ClaimedTrunkHead = NoCommit \/ CommonAncestors(head, ClaimedTrunkHead) = {}
           THEN rebasePoint = NoCommit /\ IsTrunkResult(lastTag, head)
           ELSE rebasePoint \in CommonAncestors(head, ClaimedTrunkHead)

\* C7: on a non-trunk branch with a rebase point, the resolved tag is the
\* newest of the tags reachable from the rebase point, or the sentinel when
\* there is none; a tag reachable from the current commit and not from the
\* rebase point is never selected.
C7_TagFromRebasePoint ==
    (TagResolved /\ ~IsTrunkBranch(branchName) /\ TrunkHead # NoCommit
       /\ CommonAncestors(head, TrunkHead) # {}) =>
        /\ rebasePoint \in CommonAncestors(head, TrunkHead)
        /\ IsTrunkResult(lastTag, rebasePoint)
        /\ lastTag \notin (TagsReachableFrom(head) \ TagsReachableFrom(rebasePoint))

\* C7 witness: a feature branch with two tags, the newer one after the rebase
\* point; the older one, at or before the rebase point, is resolved.
C7_Witness ==
    /\ TagResolved
    /\ branchName = FeatureBranch
    /\ rebasePoint \notin {NoCommit, head}
    /\ lastTag \in ExistingTags
    /\ \E t \in TagsReachableFrom(head) \ TagsReachableFrom(rebasePoint) :
           ctime[tags[t]] > ctime[tags[lastTag]]

\* C8: the rebase point is the first commit, in the traversal from the
\* current commit, that is an ancestor-or-self of the trunk head; one is found
\* whenever the two have a common ancestor; in a linear history it is the
\* lowest common ancestor of the current commit and the trunk head.
C8_RebasePointFirstCommon ==
    /\ (TagResolved /\ rebasePoint # NoCommit) =>
           /\ TrunkHead # NoCommit
           /\ rebasePoint = FirstCommonInTraversal(head, TrunkHead)
           /\ IsLinear => IsLowestCommonAncestor(rebasePoint, head, TrunkHead)
    /\ (TagResolved /\ branchName \notin {"main", "master"} /\ TrunkHead # NoCommit
          /\ CommonAncestors(head, TrunkHead) # {}) => rebasePoint # NoCommit

\* C8 witness: a linear history in which the feature branch has moved on from
\* the rebase point, and the rebase point is not the only common ancestor.
C8_Witness ==
    /\ TagResolved
    /\ IsLinear
    /\ branchName = FeatureBranch
    /\ rebasePoint \notin {NoCommit, head}
    /\ Cardinality(CommonAncestors(head, TrunkHead)) > 1

\* C9: unrelated histories and the absence of tags are no errors: when the
\* current commit and the trunk head have no common ancestor, GetLastTag
\* returns the result of the trunk logic from the current commit, and when no
\* tag is reachable it returns the sentinel; in both cases without an error.
C9_FallbacksAreNotErrors ==
    /\ (LastTagReturned /\ TrunkHead # NoCommit /\ CommonAncestors(head, TrunkHead) = {}) =>
           (~err /\ rebasePoint = NoCommit /\ IsTrunkResult(lastTag, head))
    /\ (LastTagReturned /\ TagsReachableFrom(head) = {}) =>
           (~err /\ lastTag = SentinelTag)

\* C9 witness: a feature branch that shares no commit with main; the tag on
\* its own history is resolved.
C9_Witness ==
    /\ Finished
    /\ branchName = FeatureBranch
    /\ TrunkHead # NoCommit
    /\ CommonAncestors(head, TrunkHead) = {}
    /\ lastTag \in ExistingTags

\* C10 (as claimed): when an object read fails during the run, the run
\* returns an error and no tag, distance or version.
C10_ReadFailureIsFatal ==
    (pc = "done" /\ ioFailed) => err

C12_SharedAncestorCountedOnce ==
    (Counted /\ lastTag = SentinelTag) =>
        /\ commitsSince = Cardinality(Ancestors(head))
        /\ commitsSince <= Cardinality(Commits)

\* C12 witness: the current commit is a merge, one of its ancestors is
\* reachable through two parent paths, and the sentinel distance has been
\* computed.
C12_Witness ==
    /\ Counted
    /\ lastTag = SentinelTag
    /\ Len(parents[head]) = 2
    /\ \E c \in Ancestors(head) : PathCount(head, c) >= 2
    /\ commitsSince = 3

\* C13 (as claimed): the resolved tag is a function of the repository
\* snapshot: the name GetLastTag returned is the name every other pass over
\* the same commits, tags and branch heads returns, whatever the order in
\* which the store enumerates the tags.
C13_TagIsFunctionOfSnapshot ==
    (TagResolved /\ inBuiltGit) =>
        \A other \in GoGitGetLastTag(branchName).names : other = lastTag

C15_DefaultWithDistance ==
    (Finished /\ IsDefaultScheme(options) /\ ~options.Hash /\ commitsSince > 0) =>
        /\ version = IF IsTrunkBranch(branchName)
                     THEN lastTag \o "+" \o ToString(commitsSince)
                     ELSE lastTag \o "-" \o cleanBranchName(branchName)
                              \o "+" \o ToString(commitsSince)
        /\ (lastTag = "v1.2.3" /\ IsTrunkBranch(branchName) /\ commitsSince = 5)
               => version = "v1.2.3+5"
        /\ (lastTag = "v1.2.3" /\ branchName = "feature/auth" /\ commitsSince = 3)
               => version = "v1.2.3-feature-auth+3"

\* C15 witness: v1.2.3, distance 3, branch feature/auth, Default, no hash.
C15_Witness ==
    /\ Finished
    /\ IsDefaultScheme(options) /\ ~options.Hash
    /\ lastTag = "v1.2.3" /\ branchName = "feature/auth" /\ commitsSince = 3
    /\ version = "v1.2.3-feature-auth+3"

\* C16 (as claimed): Semver scheme, distance d > 0, every tag: with core the
\* tag without a single leading "v", the version is v core -dev.d on a trunk
\* branch and v core - sanitized branch .d on any other branch.
C16_SemverWithDistance ==
    (Finished /\ IsSemverScheme(options) /\ ~options.Hash /\ commitsSince > 0) =>
        version = IF IsTrunkBranch(branchName)
                  THEN "v" \o SemverCore(lastTag) \o "-dev." \o ToString(commitsSince)
                  ELSE "v" \o SemverCore(lastTag) \o "-" \o cleanBranchName(branchName)
                           \o "." \o ToString(commitsSince)

\* C16 for the tags whose core does not itself begin with "v": there the
\* Semver forms of the claim are the generated ones.
C16_SemverCoreWithoutV ==
    (Finished /\ IsSemverScheme(options) /\ ~options.Hash /\ commitsSince > 0
       /\ ~hasVersionPrefix(SemverCore(lastTag))) =>
        version = IF IsTrunkBranch(branchName)
                  THEN "v" \o SemverCore(lastTag) \o "-dev." \o ToString(commitsSince)
                  ELSE "v" \o SemverCore(lastTag) \o "-" \o cleanBranchName(branchName)
                           \o "." \o ToString(commitsSince)

\* C17: GenerateVersion with distance 0 and no hash returns the tag unchanged
\* under the Default, Semver and Simple schemes, for every tag and branch.
C17_OnTagReturnsTag ==
    (Finished /\ commitsSince = 0 /\ ~options.Hash /\ ~options.CalVer) =>
        version = lastTag

\* C17 witness: Semver, a tag without "v", a non-trunk branch, distance 0.
C17_Witness ==
    /\ Finished
    /\ IsSemverScheme(options) /\ ~options.Hash
    /\ lastTag = "1.2.3" /\ branchName = "feature/auth" /\ commitsSince = 0
    /\ version = "1.2.3"

\* C18 (as claimed): in the Default scheme the version with the hash is the
\* version without the hash followed by "+" and the short hash, for every
\* tag, distance, branch and short hash.
C18_HashAppendedToHashless ==
    (Finished /\ IsDefaultScheme(options) /\ options.Hash) =>
        version = GenerateVersion(lastTag, commitsSince, shortHash, branchName,
                                  [options EXCEPT !.Hash = FALSE])
                      \o "+" \o shortHash

\* C18 off the degenerate case: the same, on a trunk branch or at a
\* distance > 0; exactly on v1.2.3 on trunk with hash abc1234 it is
\* v1.2.3+abc1234.
C18_HashAppendedOnTrunkOrOffTag ==
    (Finished /\ IsDefaultScheme(options) /\ options.Hash
       /\ (IsTrunkBranch(branchName) \/ commitsSince > 0)) =>
        /\ version = GenerateVersion(lastTag, commitsSince, shortHash, branchName,
                                     [options EXCEPT !.Hash = FALSE])
                         \o "+" \o shortHash
        /\ (IsTrunkBranch(branchName) /\ commitsSince = 0 /\ lastTag = "v1.2.3"
              /\ shortHash = "abc1234") => version = "v1.2.3+abc1234"

\* C19: the Simple scheme ignores distance and branch: the version is the
\* tag without the hash option and tag+short hash with it.
C19_SimpleIgnoresDistanceAndBranch ==
    (Finished /\ IsSimpleScheme(options)) =>
        version = IF options.Hash THEN lastTag \o "+" \o shortHash ELSE lastTag

\* C19 witness: Simple without hash at distance 3 on feature/auth.
C19_Witness ==
    /\ Finished
    /\ IsSimpleScheme(options) /\ ~options.Hash
    /\ branchName = "feature/auth" /\ commitsSince = 3 /\ lastTag = "v1.2.3"
    /\ version = "v1.2.3"

LegacyForm(t, d, b, docker) ==
    IF d = 0 THEN t
    ELSE IF IsTrunkBranch(b)
         THEN t \o (IF docker THEN "-" ELSE "+") \o ToString(d)
         ELSE t \o "-" \o cleanBranchName(b) \o (IF docker THEN "-" ELSE "+") \o ToString(d)

\* C21 (as claimed): legacy/docker mode: distance 0 gives the tag; distance
\* d > 0 gives tag+d (default) or tag-d (docker) on a trunk branch (main,
\* master, detached) and tag-branch+d or tag-branch-d, the branch sanitized,
\* on any other branch.
C21_LegacyForms ==
    Finished => version = LegacyForm(lastTag, commitsSince, branchName, dockerFormat)

\* C21 on VersionGenerator.GenerateLegacy, where it holds (checked under
\* SpecLegacy; C21_LegacyForms fails under SpecSystemGitLegacy).
C21_GenerateLegacyForms ==
    Finished =>
        /\ version = LegacyForm(lastTag, commitsSince, branchName, dockerFormat)
        /\ (lastTag = "v1.2.3" /\ branchName = "feature/auth" /\ commitsSince = 3
              /\ dockerFormat) => version = "v1.2.3-feature-auth-3"
        /\ (lastTag = "v1.2.3" /\ branchName = "detached" /\ commitsSince = 5
              /\ dockerFormat) => version = "v1.2.3-5"

\* C22 (as claimed): on every branch other than main, master and detached
\* the version of the Default, Semver and CalVer schemes includes the
\* sanitized branch name; on main, master and detached no scheme includes a
\* branch name.
C22_BranchInVersion ==
    Finished =>
        /\ (~IsTrunkBranch(branchName) /\ ~IsSimpleScheme(options)
              /\ (IsDefaultScheme(options) \/ IsSemverScheme(options)
                     \/ IsCalVerScheme(options))) => IncludesBranch
        /\ IsTrunkBranch(branchName) => ~IncludesBranch

\* C22 (amended): on every branch other than main, master and detached the
\* version includes the sanitized branch name under CalVer always, and under
\* Default and Semver when the distance is > 0 or the hash is included; at
\* distance 0 without the hash Default and Semver give the bare tag, without
\* the branch.  On main, master and detached no scheme includes a branch
\* name.
C22_BranchInVersionOffTag ==
    Finished =>
        /\ (~IsTrunkBranch(branchName) /\ IsCalVerScheme(options)) => IncludesBranch
        /\ (~IsTrunkBranch(branchName) /\ (commitsSince > 0 \/ options.Hash)
              /\ (IsDefaultScheme(options) \/ IsSemverScheme(options))) =>
               /\ IncludesBranch
               /\ Contains(version, "-" \o cleanBranchName(branchName))
        /\ (~IsTrunkBranch(branchName) /\ commitsSince = 0 /\ ~options.Hash
              /\ (IsDefaultScheme(options) \/ IsSemverScheme(options))) =>
               version = lastTag /\ ~IncludesBranch
        /\ IsTrunkBranch(branchName) => ~IncludesBranch

\* C22 witness: Semver on feature/auth exactly on the tag, with the hash:
\* the branch is in the version.
C22_Witness ==
    /\ Finished
    /\ IsSemverScheme(options) /\ options.Hash
    /\ branchName = "feature/auth" /\ commitsSince = 0
    /\ lastTag = "v1.2.3" /\ shortHash = "abc1234"
    /\ version = "v1.2.3-feature-auth+abc1234"

\* C23 (as claimed): both backends compute the same distance: for every
\* commit graph and every tag reachable from HEAD, the count of the go-git
\* walk is the count of git rev-list --count HEAD ^tag, the number of commits
\* reachable from HEAD and not from the tag's commit.
C23_BackendsCountAlike ==
    (Counted /\ inBuiltGit /\ lastTag \in ExistingTags
       /\ tags[lastTag] \in Ancestors(head)) =>
        /\ commitsSince = SystemGitGetCommitsSinceTag(lastTag)
        /\ commitsSince = Cardinality(Ancestors(head) \ Ancestors(tags[lastTag]))

\* C23 on linear histories, where the two counts are the same.
C23_BackendsCountAlikeOnLines ==
    (Counted /\ inBuiltGit /\ lastTag \in ExistingTags /\ IsLinear) =>
        commitsSince = SystemGitGetCommitsSinceTag(lastTag)

\* C24 (as claimed): when HEAD is detached the branch name used for the
\* version is "detached", whatever branches contain the current commit.
C24_DetachedHeadIsDetached ==
    (pc # "start" /\ headRef = "HEAD") => branchName = "detached"

\* C24 where no branch contains the current commit: there the name is
\* "detached".
C24_DetachedWhenNoBranchContains ==
    (pc # "start" /\ headRef = "HEAD"
       /\ \A b \in TrunkRefs : branches[b] = NoCommit \/ head \notin Ancestors(branches[b]))
        => branchName = "detached"

\* C25 (as claimed): when several file-type flags are given (--go, --cpp,
\* --yaml, --file), one file of every requested type is written, each at its
\* own path (its custom path, or version.go, version.h, version.yaml,
\* .VERSION).
C25_EveryRequestedFileWritten ==
    pc = "written" => RequestedFiles \subseteq files

\* C25 for a single file flag, and what is written for several: one file,
\* of the first requested type in the order go, cpp, yaml, file.
C25_OneFileWritten ==
    pc = "written" =>
        /\ Cardinality(files) = 1
        /\ (Cardinality(RequestedFiles) = 1 => files = RequestedFiles)
        /\ (RequestedFiles # {} => files \subseteq RequestedFiles)
        /\ (cli.Go => \A f \in files : f.type = "go")

\* C26 (as claimed): the formatting duplicated in the system git handler
\* agrees with the shared VersionGenerator: for every tag, distance, branch,
\* short hash (empty included) and options, generateVersionStringWithOptions
\* returns the string GenerateVersion returns.
C26_DuplicateAgreesWithGenerator ==
    Finished =>
        version = GenerateVersion(lastTag, commitsSince, shortHash, branchName, options)

\* C26 where the two agree: a non-empty short hash and a tag whose core does
\* not begin with "v".
C26_DuplicateAgreesOnUsualInputs ==
    (Finished /\ shortHash # "" /\ ~hasVersionPrefix(SemverCore(lastTag))) =>
        version = GenerateVersion(lastTag, commitsSince, shortHash, branchName, options)

\* C27: in the go-git backend a tag returned by GetLastTag that is not the
\* sentinel targets the current commit or one of its ancestors, on every
\* branch and through every fallback; so the walk of GetCommitsSinceTag meets
\* the tag's commit and does not run to the end of history.
C27_ReturnedTagIsAncestor ==
    (TagResolved /\ inBuiltGit /\ lastTag # SentinelTag) =>
        /\ lastTag \in ExistingTags
        /\ tags[lastTag] \in Ancestors(head)
        /\ tags[lastTag] \in Range(Preorder(head).order)
        /\ Counted => commitsSince < Len(Preorder(head).order)

\* C27 witness: on the feature branch the tag comes from a rebase point that
\* is not the current commit, and the distance has been counted.
C27_Witness ==
    /\ Counted
    /\ inBuiltGit
    /\ branchName = FeatureBranch
    /\ rebasePoint \notin {NoCommit, head}
    /\ lastTag \in ExistingTags
    /\ \E t \in ExistingTags : tags[t] \notin Ancestors(head)
    /\ commitsSince > 0

\* C28: whenever findCommonAncestor succeeds the rebase point is an
\* ancestor-or-self of both the current commit and the trunk head; when the
\* current commit is an ancestor-or-self of the trunk head the rebase point
\* is the current commit, and the tag resolved on that non-trunk branch is a
\* result of the trunk logic from the current commit.
C28_RebasePointIsCommonAncestor ==
    (TagResolved /\ inBuiltGit /\ branchName \notin TrunkRefs) =>
        /\ rebasePoint # NoCommit =>
               /\ rebasePoint \in Ancestors(head)
               /\ rebasePoint \in Ancestors(ClaimedTrunkHead)
        /\ (ClaimedTrunkHead # NoCommit /\ head \in Ancestors(ClaimedTrunkHead)) =>
               /\ rebasePoint = head
               /\ IsTrunkResult(lastTag, head)

\* C28 witness: the feature branch points at a proper ancestor of the trunk
\* head, which carries a later tag; the rebase point is the current commit.
C28_Witness ==
    /\ TagResolved
    /\ branchName = FeatureBranch
    /\ head # ClaimedTrunkHead
    /\ ClaimedTrunkHead # NoCommit
    /\ head \in Ancestors(ClaimedTrunkHead)
    /\ rebasePoint = head
    /\ lastTag \in ExistingTags
    /\ \E t \in ExistingTags : tags[t] = ClaimedTrunkHead

\* C29: the legacy path of a flag-less run (GenerateLegacy, dockerFormat
\* false) gives, for every tag, distance and branch, the string of the
\* Default scheme without the hash.
C29_LegacyIsDefault ==
    (Finished /\ ~dockerFormat) =>
        /\ version = GenerateDefault(lastTag, commitsSince, shortHash, branchName, FALSE)
        /\ version = GenerateVersion(lastTag, commitsSince, shortHash, branchName, NoOptions)

\* C29 witness: the legacy path on the branch detached at distance 5.
C29_Witness ==
    /\ Finished
    /\ ~dockerFormat
    /\ branchName = "detached" /\ commitsSince = 5 /\ lastTag = "v1.2.3"
    /\ version = "v1.2.3+5"

\* C30 (as claimed): with more than one scheme flag GenerateVersion applies
\* the precedence CalVer over Semver over Simple over Default for every
\* distance and hash flag: the result is the result of that scheme alone.
C30_FixedPrecedence ==
    Finished =>
        version = GenerateVersion(lastTag, commitsSince, shortHash, branchName,
                                  OneScheme(SchemeByPrecedence(options), options.Hash))

\* C30 off the degenerate case: at a distance > 0, with the hash, or without
\* CalVer and Simple together, the precedence is the claimed one.
C30_PrecedenceOffTag ==
    (Finished /\ (commitsSince > 0 \/ options.Hash \/ ~(options.CalVer /\ options.Simple))) =>
        version = GenerateVersion(lastTag, commitsSince, shortHash, branchName,
                                  OneScheme(SchemeByPrecedence(options), options.Hash))

====
